---- MODULE Spec2Model ----
(***************************************************************************)
(* pidwatch: a terminal dashboard.  main() builds a snapshot of the host   *)
(* (SystemInfo::populate), polls the keyboard once, and redraws.           *)
(*                                                                         *)
(* f32 values are modelled as exact non-negative rationals plus the two    *)
(* special values the code can produce, +Inf and NaN (rounding is not      *)
(* modelled).  A u64 subtraction that underflows either panics (builds     *)
(* with overflow checks) or wraps (builds without).                        *)
(***************************************************************************)
EXTENDS Integers, Sequences, FiniteSets, TLC

\* ---- bounds of the model -------------------------------------------------
MaxProcs == 3   \* processes in a snapshot
MaxCpu   == 2   \* raw per-process cpu usage reported by the provider
MaxCores == 2   \* logical cores in a snapshot
MaxBytes == 2   \* disk total / available space
MaxQueue == 2   \* terminal events waiting to be read

VARIABLES
    pc,               \* position of main()
    overflow_checks,  \* build profile: TRUE = integer overflow panics
    sys,              \* info::SystemInfo
    network_order,    \* Vec<String> captured before the loop
    queue,            \* terminal events not yet read
    last_input,       \* what this cycle's poll/read produced
    redraws,          \* completed terminal.draw calls in this cycle
    frame,            \* what the last terminal.draw call of this cycle rendered
    alt_screen,       \* terminal is in the alternate screen
    raw_mode,         \* terminal is in raw mode
    exit_status       \* how main() ended

vars == <<pc, overflow_checks, sys, network_order, queue, last_input,
          redraws, frame, alt_screen, raw_mode, exit_status>>

\* ---- f32 -----------------------------------------------------------------
RECURSIVE Gcd(_, _)
Gcd(a, b) == IF b = 0 THEN a ELSE Gcd(b, a % b)

FNaN == [k |-> "nan", n |-> 0, d |-> 0]
FInf == [k |-> "inf", n |-> 0, d |-> 0]

\* the finite value n/d (d > 0), in lowest terms
Fin(n, d) ==
    LET g == Gcd(n, d)
    IN  [k |-> "fin", n |-> n \div g, d |-> d \div g]

\* a as f32 / b as f32, for non-negative a and b
FDiv(a, b) ==
    IF b = 0 THEN (IF a = 0 THEN FNaN ELSE FInf) ELSE Fin(a, b)

\* x + y
FAdd(x, y) ==
    IF x.k = "nan" \/ y.k = "nan" THEN FNaN
    ELSE IF x.k = "inf" \/ y.k = "inf" THEN FInf
    ELSE Fin(x.n * y.d + y.n * x.d, x.d * y.d)

\* x.partial_cmp(&y): None when either side is NaN
partial_cmp(x, y) ==
    IF x.k = "nan" \/ y.k = "nan" THEN "None"
    ELSE IF x.k = "inf" THEN (IF y.k = "inf" THEN "Equal" ELSE "Greater")
    ELSE IF y.k = "inf" THEN "Less"
    ELSE IF x.n * y.d < y.n * x.d THEN "Less"
    ELSE IF x.n * y.d > y.n * x.d THEN "Greater"
    ELSE "Equal"

\* ---- u64 -----------------------------------------------------------------
\* a - b on u64 in a build without overflow checks.  [wrapped |-> TRUE, v]
\* stands for the wrapped value 2^64 - v.
wrapping_sub(a, b) ==
    IF a >= b THEN [wrapped |-> FALSE, v |-> a - b]
    ELSE [wrapped |-> TRUE, v |-> b - a]

\* ---- SystemInfo ----------------------------------------------------------
new == [cpus |-> <<>>, networks |-> <<>>, disks |-> <<>>, processes |-> <<>>]

\* one Disk of populate
DiskOf(d) ==
    [total   |-> d.total,
     used    |-> wrapping_sub(d.total, d.free),
     free    |-> d.free,
     percent |-> FDiv(d.total, d.free)]

\* one ProcessData of populate; ncpu is sys.cpus().iter().count()
ProcessDataOf(p, ncpu) ==
    [pid |-> p.pid, name |-> p.name, exe |-> p.exe, state |-> p.state,
     ram |-> p.ram, total_time |-> p.total_time,
     cpu_usage |-> FDiv(p.cpu, ncpu)]

\* populate panics when total - available underflows and overflow is checked
PopulatePanics(host) ==
    overflow_checks /\ \E i \in DOMAIN host.disks :
        host.disks[i].free > host.disks[i].total

populate(host) ==
    [cpus      |-> host.cpus,
     networks  |-> host.networks,
     disks     |-> [i \in DOMAIN host.disks |-> DiskOf(host.disks[i])],
     processes |-> [i \in DOMAIN host.processes |->
                       ProcessDataOf(host.processes[i], Len(host.cpus))]]

\* ---- the draw closure ----------------------------------------------------
RECURSIVE SumField(_, _, _)
\* sum of field f over the first n elements of s
SumField(s, f, n) == IF n = 0 THEN 0 ELSE SumField(s, f, n - 1) + s[n][f]

\* formatted_cpu: the two averages
AverageUsage(cpus) == FDiv(SumField(cpus, "usage", Len(cpus)), Len(cpus))
AverageClockSpeed(cpus) ==
    FDiv(SumField(cpus, "clock_speed", Len(cpus)), Len(cpus))

\* raw_networks.iter().find(|x| x.name == *n) is None
FindIsNone(raw_networks, n) ==
    ~ \E j \in DOMAIN raw_networks : raw_networks[j].name = n

\* ordered_networks: .unwrap() of a None panics
OrderedNetworksPanics(order, raw_networks) ==
    \E i \in DOMAIN order : FindIsNone(raw_networks, order[i])

ordered_networks(order, raw_networks) ==
    [i \in DOMAIN order |->
        raw_networks[CHOOSE j \in DOMAIN raw_networks :
            /\ raw_networks[j].name = order[i]
            /\ \A l \in 1..(j - 1) : raw_networks[l].name # order[i]]]

\* the comparator of sorted_by returns None.unwrap(): a sort of two or more
\* elements compares every element at least once
SortedByCpuPanics(processes) ==
    /\ Len(processes) >= 2
    /\ \E i \in DOMAIN processes : processes[i].cpu_usage.k = "nan"

RECURSIVE InsertByCpu(_, _)
\* stable insertion under |a, b| b.cpu_usage.partial_cmp(&a.cpu_usage)
InsertByCpu(sorted, p) ==
    IF sorted = <<>> THEN <<p>>
    ELSE IF partial_cmp(p.cpu_usage, Head(sorted).cpu_usage) = "Greater"
         THEN <<p>> \o sorted
         ELSE <<Head(sorted)>> \o InsertByCpu(Tail(sorted), p)

RECURSIVE SortPrefix(_, _)
SortPrefix(processes, n) ==
    IF n = 0 THEN <<>>
    ELSE InsertByCpu(SortPrefix(processes, n - 1), processes[n])

\* stable sort, descending cpu_usage
sorted_by_cpu(processes) == SortPrefix(processes, Len(processes))

\* a loop body that forgets to add ram
AccumulateNoRam(summed, process) ==
    IF \E i \in DOMAIN summed : summed[i].name = process.name
    THEN LET i == CHOOSE j \in DOMAIN summed :
                     /\ summed[j].name = process.name
                     /\ \A l \in 1..(j - 1) : summed[l].name # process.name
         IN  [summed EXCEPT
                 ![i].cpu_usage  = FAdd(@, process.cpu_usage),
                 ![i].total_time = @ + process.total_time]
    ELSE Append(summed, process)

\* the body of `for process in sorted_by_cpu`
Accumulate(summed, process) ==
    IF \E i \in DOMAIN summed : summed[i].name = process.name
    THEN LET i == CHOOSE j \in DOMAIN summed :
                     /\ summed[j].name = process.name
                     /\ \A l \in 1..(j - 1) : summed[l].name # process.name
         IN  [summed EXCEPT
                 ![i].cpu_usage  = FAdd(@, process.cpu_usage),
                 ![i].ram        = @ + process.ram,
                 ![i].total_time = @ + process.total_time]
    ELSE Append(summed, process)

RECURSIVE SumPrefix(_, _)
SumPrefix(sorted, n) ==
    IF n = 0 THEN <<>>
    ELSE Accumulate(SumPrefix(sorted, n - 1), sorted[n])

summed_processes(processes) ==
    LET sorted == sorted_by_cpu(processes)
    IN  SumPrefix(sorted, Len(sorted))

NoFrame == [drawn |-> FALSE]

\* what the closure passed to terminal.draw renders
draw(s, order) ==
    [drawn             |-> TRUE,
     average_usage     |-> AverageUsage(s.cpus),
     average_clock     |-> AverageClockSpeed(s.cpus),
     ordered_networks  |-> ordered_networks(order, s.networks),
     summed_processes  |-> summed_processes(s.processes)]

\* the panic the closure ends in, "" when it completes
DrawPanic(s, order) ==
    IF OrderedNetworksPanics(order, s.networks) THEN "panic: ordered_networks"
    ELSE IF SortedByCpuPanics(s.processes) THEN "panic: sorted_by_cpu"
    ELSE ""


\* ---- inputs --------------------------------------------------------------
Names == {"a", "b"}

\* the provider's report of one process: its position in the provider's
\* iteration order is its pid, and exe, state, ram and total_time differ
\* from process to process
HostProcess(i, name, cpu) ==
    [pid |-> i, name |-> name, exe |-> <<"exe", i>>,
     state |-> IF i % 2 = 1 THEN "Runnable" ELSE "Sleeping",
     cpu |-> cpu, ram |-> 2 ^ i, total_time |-> 3 ^ i]

HostCpus(n) == [i \in 1..n |-> [usage |-> i, clock_speed |-> 2 * i]]

HostNetworks(names) == [i \in DOMAIN names |-> [name |-> names[i]]]

ProcessChoices == Names \X (0..MaxCpu)

HostProcessLists ==
    UNION {{[i \in 1..n |-> HostProcess(i, f[i][1], f[i][2])] :
               f \in [1..n -> ProcessChoices]} : n \in 0..MaxProcs}

HostDisks == {[total |-> t, free |-> f] : t \in 0..MaxBytes, f \in 0..MaxBytes}

\* hosts of the aggregation runs: every process list on every core count,
\* and every disk
AggHosts ==
    {[cpus |-> HostCpus(n), networks |-> HostNetworks(<<"eth0">>),
      disks |-> <<[total |-> 2, free |-> 1]>>, processes |-> ps] :
        n \in 0..MaxCores, ps \in HostProcessLists}
    \cup
    {[cpus |-> HostCpus(1), networks |-> HostNetworks(<<"eth0">>),
      disks |-> <<d>>, processes |-> <<HostProcess(1, "a", 1)>>] :
        d \in HostDisks}

\* hosts of the main-loop runs
LoopHosts ==
    {[cpus |-> HostCpus(n), networks |-> HostNetworks(ns),
      disks |-> <<d>>, processes |-> ps] :
        n \in {0, 1},
        ns \in {<<"eth0", "wlan0">>, <<"wlan0", "eth1">>},
        d \in {[total |-> 2, free |-> 1], [total |-> 1, free |-> 2]},
        ps \in {<<HostProcess(1, "a", 1)>>,
                <<HostProcess(1, "a", 0), HostProcess(2, "b", 0)>>}}

KeyEvent(code, kind) == [type |-> "key", code |-> code, kind |-> kind]
Resize == [type |-> "resize", code |-> "", kind |-> ""]
NoInput == [type |-> "none", code |-> "", kind |-> ""]
Timeout == [type |-> "timeout", code |-> "", kind |-> ""]

Events == {KeyEvent("q", "press"), KeyEvent("esc", "press"),
           KeyEvent("q", "release"), KeyEvent("esc", "repeat"),
           KeyEvent("a", "press"), Resize}

\* ---- main ----------------------------------------------------------------
\* a build that only quits on 'q'
IsExitKeyOnlyQ(ev) ==
    ev.type = "key" /\ ev.kind = "press" /\ ev.code = "q"

\* the event makes the loop break
IsExitKey(ev) ==
    ev.type = "key" /\ ev.kind = "press" /\ ev.code \in {"q", "esc"}

NamesOf(networks) == [i \in DOMAIN networks |-> networks[i].name]

Init ==
    /\ pc = "start"
    /\ overflow_checks \in BOOLEAN
    /\ sys = new
    /\ network_order = <<>>
    /\ queue = <<>>
    /\ last_input = NoInput
    /\ redraws = 0
    /\ frame = NoFrame
    /\ alt_screen = FALSE
    /\ raw_mode = FALSE
    /\ exit_status = "running"

\* main returns Err through `?`
ReturnErr ==
    /\ pc' = "exited"
    /\ exit_status' = "io_error"

\* a panic unwinds out of main
Panic(what) ==
    /\ pc' = "exited"
    /\ exit_status' = what

\* sys.populate() before the terminal is set up
FirstPopulate ==
    /\ pc = "start"
    /\ \E host \in LoopHosts :
        IF PopulatePanics(host)
        THEN Panic("panic: disk used") /\ UNCHANGED sys
        ELSE sys' = populate(host) /\ pc' = "enter_alternate_screen"
                /\ UNCHANGED exit_status
    /\ UNCHANGED <<overflow_checks, network_order, queue, last_input,
                   redraws, frame, alt_screen, raw_mode>>

\* stdout().execute(EnterAlternateScreen)?
EnterAlternateScreen ==
    /\ pc = "enter_alternate_screen"
    /\ \E ok \in BOOLEAN :
        IF ok
        THEN alt_screen' = TRUE /\ pc' = "enable_raw_mode"
                /\ UNCHANGED exit_status
        ELSE ReturnErr /\ UNCHANGED alt_screen
    /\ UNCHANGED <<overflow_checks, sys, network_order, queue, last_input,
                   redraws, frame, raw_mode>>

\* enable_raw_mode()?
EnableRawMode ==
    /\ pc = "enable_raw_mode"
    /\ \E ok \in BOOLEAN :
        IF ok
        THEN raw_mode' = TRUE /\ pc' = "terminal_new"
                /\ UNCHANGED exit_status
        ELSE ReturnErr /\ UNCHANGED raw_mode
    /\ UNCHANGED <<overflow_checks, sys, network_order, queue, last_input,
                   redraws, frame, alt_screen>>

\* Terminal::new(..)?, terminal.clear()?, then the capture of network_order
TerminalNew ==
    /\ pc = "terminal_new"
    /\ \E ok \in BOOLEAN :
        IF ok
        THEN network_order' = NamesOf(sys.networks) /\ pc' = "populate"
                /\ UNCHANGED exit_status
        ELSE ReturnErr /\ UNCHANGED network_order
    /\ UNCHANGED <<overflow_checks, sys, queue, last_input, redraws, frame,
                   alt_screen, raw_mode>>

\* top of the loop: sys.populate()
Populate ==
    /\ pc = "populate"
    /\ \E host \in LoopHosts :
        IF PopulatePanics(host)
        THEN Panic("panic: disk used") /\ UNCHANGED sys
        ELSE sys' = populate(host) /\ pc' = "poll" /\ UNCHANGED exit_status
    /\ last_input' = NoInput
    /\ redraws' = 0
    /\ frame' = NoFrame
    /\ UNCHANGED <<overflow_checks, network_order, queue, alt_screen,
                   raw_mode>>

\* event::poll(16ms)?
Poll ==
    /\ pc = "poll"
    /\ \E ok \in BOOLEAN :
        IF ~ok THEN ReturnErr /\ UNCHANGED last_input
        ELSE IF queue # <<>>
             THEN pc' = "read" /\ UNCHANGED <<last_input, exit_status>>
             ELSE pc' = "draw" /\ last_input' = Timeout
                     /\ UNCHANGED exit_status
    /\ UNCHANGED <<overflow_checks, sys, network_order, queue, redraws,
                   frame, alt_screen, raw_mode>>

\* event::read()? and the match on the key
Read ==
    /\ pc = "read"
    /\ queue # <<>>
    /\ \E ok \in BOOLEAN :
        IF ~ok THEN ReturnErr /\ UNCHANGED <<last_input, queue>>
        ELSE /\ last_input' = Head(queue)
             /\ queue' = Tail(queue)
             /\ pc' = IF IsExitKey(Head(queue))
                      THEN "leave_alternate_screen" ELSE "draw"
             /\ UNCHANGED exit_status
    /\ UNCHANGED <<overflow_checks, sys, network_order, redraws, frame,
                   alt_screen, raw_mode>>

\* let _ = terminal.draw(..): its io::Result is discarded
Draw ==
    /\ pc = "draw"
    /\ IF DrawPanic(sys, network_order) # ""
       THEN Panic(DrawPanic(sys, network_order)) /\ UNCHANGED <<frame, redraws>>
       ELSE /\ frame' = draw(sys, network_order)
            /\ redraws' = redraws + 1
            /\ pc' = "populate"
            /\ UNCHANGED exit_status
    /\ UNCHANGED <<overflow_checks, sys, network_order, queue, last_input,
                   alt_screen, raw_mode>>

\* stdout().execute(LeaveAlternateScreen)?
LeaveAlternateScreen ==
    /\ pc = "leave_alternate_screen"
    /\ \E ok \in BOOLEAN :
        IF ok
        THEN alt_screen' = FALSE /\ pc' = "disable_raw_mode"
                /\ UNCHANGED exit_status
        ELSE ReturnErr /\ UNCHANGED alt_screen
    /\ UNCHANGED <<overflow_checks, sys, network_order, queue, last_input,
                   redraws, frame, raw_mode>>

\* disable_raw_mode()?; Ok(())
DisableRawMode ==
    /\ pc = "disable_raw_mode"
    /\ \E ok \in BOOLEAN :
        IF ok
        THEN raw_mode' = FALSE /\ pc' = "exited" /\ exit_status' = "success"
        ELSE ReturnErr /\ UNCHANGED raw_mode
    /\ UNCHANGED <<overflow_checks, sys, network_order, queue, last_input,
                   redraws, frame, alt_screen>>

\* the terminal delivers an event while main runs
EventArrives ==
    /\ pc # "exited"
    /\ Len(queue) < MaxQueue
    /\ \E ev \in Events : queue' = Append(queue, ev)
    /\ UNCHANGED <<pc, overflow_checks, sys, network_order, last_input,
                   redraws, frame, alt_screen, raw_mode, exit_status>>

Next ==
    \/ FirstPopulate
    \/ EnterAlternateScreen
    \/ EnableRawMode
    \/ TerminalNew
    \/ Populate
    \/ Poll
    \/ Read
    \/ Draw
    \/ LeaveAlternateScreen
    \/ DisableRawMode
    \/ EventArrives

Spec == Init /\ [][Next]_vars

\* ---- one snapshot build and one aggregation, on every input --------------
InitAgg ==
    /\ pc = "agg_populate"
    /\ overflow_checks \in BOOLEAN
    /\ sys = new
    /\ network_order = <<>>
    /\ queue = <<>>
    /\ last_input = NoInput
    /\ redraws = 0
    /\ frame = NoFrame
    /\ alt_screen = FALSE
    /\ raw_mode = FALSE
    /\ exit_status = "running"

\* sys.populate() and the capture of network_order
AggPopulate ==
    /\ pc = "agg_populate"
    /\ \E host \in AggHosts :
        IF PopulatePanics(host)
        THEN Panic("panic: disk used") /\ UNCHANGED <<sys, network_order>>
        ELSE /\ sys' = populate(host)
             /\ network_order' = NamesOf(host.networks)
             /\ pc' = "agg_draw"
             /\ UNCHANGED exit_status
    /\ UNCHANGED <<overflow_checks, queue, last_input, redraws, frame,
                   alt_screen, raw_mode>>

\* the draw closure on that snapshot
AggDraw ==
    /\ pc = "agg_draw"
    /\ IF DrawPanic(sys, network_order) # ""
       THEN Panic(DrawPanic(sys, network_order)) /\ UNCHANGED <<frame, redraws>>
       ELSE /\ frame' = draw(sys, network_order)
            /\ redraws' = redraws + 1
            /\ pc' = "agg_done"
            /\ UNCHANGED exit_status
    /\ UNCHANGED <<overflow_checks, sys, network_order, queue, last_input,
                   alt_screen, raw_mode>>

NextAgg == AggPopulate \/ AggDraw

SpecAgg == InitAgg /\ [][NextAgg]_vars


\* ---- properties ----------------------------------------------------------
QuitPress(ev) ==
    /\ ev.type = "key"
    /\ ev.kind = "press"
    /\ ev.code = "q" \/ ev.code = "esc"

Present(networks, n) == \E j \in DOMAIN networks : networks[j].name = n

Members(ps, name) == {k \in DOMAIN ps : ps[k].name = name}

FirstMember(ps, name) ==
    CHOOSE k \in Members(ps, name) : \A l \in Members(ps, name) : k <= l

RECURSIVE IntSumOver(_, _, _)
\* sum of field f of ps over the index set ks
IntSumOver(ps, f, ks) ==
    IF ks = {} THEN 0
    ELSE LET k == CHOOSE x \in ks : TRUE
         IN  ps[k][f] + IntSumOver(ps, f, ks \ {k})

RECURSIVE CpuSumOver(_, _)
\* sum of cpu_usage of ps over the non-empty index set ks
CpuSumOver(ps, ks) ==
    LET k == CHOOSE x \in ks : TRUE
    IN  IF ks = {k} THEN ps[k].cpu_usage
        ELSE FAdd(ps[k].cpu_usage, CpuSumOver(ps, ks \ {k}))

\* C1: in every cycle the network reorder step ends without an error and
\* yields the interfaces that are both in the display order and in the
\* current snapshot, in display order.
C1_NetworkReorder ==
    /\ exit_status # "panic: ordered_networks"
    /\ frame.drawn =>
         NamesOf(frame.ordered_networks) =
             SelectSeq(network_order, LAMBDA n : Present(sys.networks, n))

\* C2: no rollup row has a summed cpu usage greater than that of a row
\* displayed above it.
C2_RollupDescending ==
    frame.drawn =>
        \A i, j \in DOMAIN frame.summed_processes :
            i < j => partial_cmp(frame.summed_processes[j].cpu_usage,
                                 frame.summed_processes[i].cpu_usage) # "Greater"

\* C3: the rollup has exactly one row per distinct process name, and the
\* row's cpu_usage, ram and total_time are the sums over the snapshot's
\* processes of that name; the rollup is produced for every process list on
\* which the sort's comparator is defined.
C3_RollupGrouping ==
    LET ps   == sys.processes
        rows == frame.summed_processes
    IN  /\ pc = "agg_done" => frame.drawn
        /\ exit_status = "panic: sorted_by_cpu" =>
               /\ Len(ps) >= 2
               /\ \E k \in DOMAIN ps : ps[k].cpu_usage.k = "nan"
        /\ frame.drawn =>
               /\ \A i, j \in DOMAIN rows :
                      rows[i].name = rows[j].name => i = j
               /\ {rows[i].name : i \in DOMAIN rows} =
                      {ps[k].name : k \in DOMAIN ps}
               /\ \A i \in DOMAIN rows :
                      LET ks == Members(ps, rows[i].name)
                      IN  /\ rows[i].cpu_usage = CpuSumOver(ps, ks)
                          /\ rows[i].ram = IntSumOver(ps, "ram", ks)
                          /\ rows[i].total_time =
                                 IntSumOver(ps, "total_time", ks)

\* a rollup of two rows, one of them summed from two or more processes
C3_Witness ==
    /\ frame.drawn
    /\ Len(frame.summed_processes) >= 2
    /\ \E i \in DOMAIN frame.summed_processes :
           Cardinality(Members(sys.processes,
                               frame.summed_processes[i].name)) >= 2

QuitPending == \E i \in DOMAIN queue : QuitPress(queue[i])

\* C4 as stated, read at the cycle's input check: with a 'q' or Escape
\* key-press pending in the input queue, whatever is queued ahead of it, the
\* cycle goes on without a redraw.
C4_NoRedrawWhileQuitPending ==
    [][(pc \in {"poll", "read"} /\ QuitPending) =>
          (pc' # "draw" /\ ~(redraws' > redraws))]_vars

QuitAtHead ==
    /\ pc \in {"populate", "poll", "read"}
    /\ queue # <<>>
    /\ QuitPress(Head(queue))

\* C4, amended: once a 'q' or Escape key-press is at the head of the input
\* queue and the cycle's input check is still to come, no redraw happens
\* until the loop is left.
C4_HeadQuitNoRedraw ==
    [][QuitAtHead =>
          /\ ~(redraws' > redraws)
          /\ pc' # "draw"
          /\ QuitAtHead' \/ pc' \in {"leave_alternate_screen", "exited"}]_vars

\* the loop has just broken on a quit key-press, without a redraw
C4_Witness ==
    /\ pc = "leave_alternate_screen"
    /\ QuitPress(last_input)
    /\ redraws = 0

\* C5: the loop is left for the terminating path exactly when the event read
\* in the cycle is a 'q' or Escape key-press, and then without a redraw and
\* without another snapshot build; on any other input the loop keeps running
\* and the cycle makes exactly one redraw.
C5_ExitDecision ==
    /\ pc \in {"leave_alternate_screen", "disable_raw_mode"} =>
           QuitPress(last_input)
    /\ QuitPress(last_input) =>
           /\ pc \in {"leave_alternate_screen", "disable_raw_mode", "exited"}
           /\ redraws = 0
    /\ (last_input # NoInput /\ ~QuitPress(last_input)) =>
           \/ pc = "draw" /\ redraws = 0
           \/ pc = "populate" /\ redraws = 1

\* C6: with an empty CPU list the CPU summary reports 0 for both averages.
C6_CpuSummaryZeroGuard ==
    (frame.drawn /\ sys.cpus = <<>>) =>
        /\ frame.average_usage = Fin(0, 1)
        /\ frame.average_clock = Fin(0, 1)

\* C7: every disk the builder produces has used = total - free and
\* percent = used/total, and used and percent are finite and non-negative
\* also when total = 0, free = 0 or free > total.
C7_DiskDerived ==
    /\ exit_status # "panic: disk used"
    /\ \A i \in DOMAIN sys.disks :
           LET d == sys.disks[i]
           IN  /\ ~d.used.wrapped
               /\ d.percent.k = "fin"
               /\ d.free <= d.total => d.used.v = d.total - d.free
               /\ (d.free <= d.total /\ d.total > 0) =>
                      d.percent = Fin(d.total - d.free, d.total)

\* C8: the pid, exe and state of a rollup row are those of the first member
\* of its name group in the snapshot's process list.
C8_RollupRepresentative ==
    frame.drawn =>
        \A i \in DOMAIN frame.summed_processes :
            LET row   == frame.summed_processes[i]
                first == sys.processes[FirstMember(sys.processes, row.name)]
            IN  /\ row.pid = first.pid
                /\ row.exe = first.exe
                /\ row.state = first.state

\* main reached its loop: network_order, never empty on these hosts, is
\* captured right before it
LoopEntered == network_order # <<>>

\* C9: when the process ends after the loop was entered, the terminal is out
\* of the alternate screen and out of raw mode, and after a quit key-press
\* the exit status is success.
C9_TerminalRestored ==
    (pc = "exited" /\ LoopEntered) =>
        /\ ~alt_screen
        /\ ~raw_mode
        /\ QuitPress(last_input) => exit_status = "success"

\* C10: the sort by cpu usage and the grouping never end in an error.
C10_RollupTotal ==
    /\ exit_status # "panic: sorted_by_cpu"
    /\ pc = "agg_done" => frame.drawn

====
